---------------------------- MODULE Spec2Model ----------------------------
(***************************************************************************)
(* Model of src/analytics-component.js: the hierarchy builder              *)
(* getLearningSystemHierarchy and its scalar helpers.                      *)
(*                                                                         *)
(* JavaScript values are records [k, n, d, s]:                             *)
(*   k = "undefined"                      the value undefined              *)
(*   k = "NaN"                            the number NaN                   *)
(*   k = "number"   n/d, d > 0, reduced   a finite number                  *)
(*   k = "string"   s = its characters    a string                         *)
(* A string is the sequence of its characters, so that String(), parseFloat*)
(* Number(), split(':') and padStart are computed and not assumed.         *)
(* A structured time object is [k |-> "object", hours, minutes, seconds].  *)
(* Finite numbers are exact rationals: the doubles of the program agree    *)
(* with them on every comparison the model makes, the values being small   *)
(* integers, their sums and quotients by small counts.                     *)
(***************************************************************************)
EXTENDS Integers, Sequences, FiniteSets, TLC

VARIABLES
    flatData,      \* the argument of getLearningSystemHierarchy; Absent or a sequence of rows
    pc,            \* position in getLearningSystemHierarchy / in the helper call
    idx,           \* number of rows the for-loop of line 290 has processed
    chaptersMap,   \* the Map of line 289 with everything nested in it, in insertion order
    root,          \* the value returned (line 287 or 349); NoResult before
    tnum, tdig,    \* arguments of a direct call of truncateToDecimals
    tres,          \* its result
    fullData,      \* the variable of line 4, the hierarchy the page holds
    view,          \* what the component shows: loading, error, or the active tab
    card,          \* the user id of the active student card
    panel,         \* the content of the student diagnostic panel
    concepts       \* the concepts the concept analysis view lists, in order

vars ==
    <<flatData, pc, idx, chaptersMap, root, tnum, tdig, tres, fullData, view, card, panel,
      concepts>>

\* the state of the page
page == <<fullData, view, card, panel, concepts>>

-----------------------------------------------------------------------------
(* Bounds                                                                  *)

\* the longest table of each family of inputs
MaxRows == 2
MaxRowsSort == 3
MaxRowsNums == 2
MaxRowsApp == 2

\* the largest number of learners of one concept
MaxLearners == 11

-----------------------------------------------------------------------------
(* JavaScript values                                                       *)

Undef == [k |-> "undefined", n |-> 0, d |-> 1, s |-> <<>>]
NaN == [k |-> "NaN", n |-> 0, d |-> 1, s |-> <<>>]
Str(chars) == [k |-> "string", n |-> 0, d |-> 1, s |-> chars]

Abs(x) == IF x < 0 THEN -x ELSE x

RECURSIVE Gcd(_, _)
Gcd(a, b) == IF b = 0 THEN a ELSE Gcd(b, a % b)

\* the finite number p/q (q # 0), reduced, with a positive denominator
Rat(p, q) ==
    LET g == Gcd(Abs(p), Abs(q))
        sg == IF q < 0 THEN -1 ELSE 1
    IN  [k |-> "number", n |-> (sg * p) \div g, d |-> Abs(q) \div g, s |-> <<>>]

Num(x) == Rat(x, 1)

IsNum(v) == v.k = "number"
IsNaNValue(v) == v.k = "NaN"

\* ToBoolean
Truthy(v) ==
    CASE v.k = "undefined" -> FALSE
      [] v.k = "NaN" -> FALSE
      [] v.k = "number" -> v.n # 0
      [] v.k = "string" -> Len(v.s) > 0
      [] OTHER -> TRUE

\* a || b
OrElse(a, b) == IF Truthy(a) THEN a ELSE b

Digit(i) == CASE i = 0 -> "0" [] i = 1 -> "1" [] i = 2 -> "2" [] i = 3 -> "3"
              [] i = 4 -> "4" [] i = 5 -> "5" [] i = 6 -> "6" [] i = 7 -> "7"
              [] i = 8 -> "8" [] i = 9 -> "9"

DigitValue(c) == CASE c = "0" -> 0 [] c = "1" -> 1 [] c = "2" -> 2 [] c = "3" -> 3
                   [] c = "4" -> 4 [] c = "5" -> 5 [] c = "6" -> 6 [] c = "7" -> 7
                   [] c = "8" -> 8 [] c = "9" -> 9 [] OTHER -> -1

IsDigit(c) == DigitValue(c) >= 0

\* the decimal digits of a natural number
RECURSIVE NatChars(_)
NatChars(x) == IF x < 10 THEN <<Digit(x)>> ELSE Append(NatChars(x \div 10), Digit(x % 10))

\* the characters of Number::toString for an integer (the ids of the model are integers)
IntChars(x) == IF x < 0 THEN <<"-">> \o NatChars(-x) ELSE NatChars(x)

Chars_undefined == <<"u", "n", "d", "e", "f", "i", "n", "e", "d">>
Chars_NaN == <<"N", "a", "N">>

\* String(v), as its characters
ToStringChars(v) ==
    CASE v.k = "string" -> v.s
      [] v.k = "undefined" -> Chars_undefined
      [] v.k = "NaN" -> Chars_NaN
      [] v.k = "number" /\ v.d = 1 -> IntChars(v.n)

\* String(v)
String(v) == Str(ToStringChars(v))

\* the length of the longest prefix of digits of cs starting at position i
RECURSIVE DigitRun(_, _)
DigitRun(cs, i) == IF i <= Len(cs) /\ IsDigit(cs[i]) THEN 1 + DigitRun(cs, i + 1) ELSE 0

\* the natural number written by the digits cs[i .. i+len-1]
RECURSIVE DigitsValue(_, _, _)
DigitsValue(cs, i, len) ==
    IF len = 0 THEN 0
    ELSE 10 * DigitsValue(cs, i, len - 1) + DigitValue(cs[i + len - 1])

RECURSIVE Pow10(_)
Pow10(e) == IF e = 0 THEN 1 ELSE 10 * Pow10(e - 1)

\* StrDecimalLiteral at the start of cs: [ok, val, end], end the first position after
\* it. sign? digits (. digits?)? ; no exponent and no leading '.' occur in the model.
DecimalPrefix(cs) ==
    LET neg == Len(cs) > 0 /\ cs[1] = "-"
        st == IF neg THEN 2 ELSE 1
        il == DigitRun(cs, st)
        dot == il > 0 /\ st + il <= Len(cs) /\ cs[st + il] = "."
        fl == IF dot THEN DigitRun(cs, st + il + 1) ELSE 0
        ip == DigitsValue(cs, st, il)
        fp == DigitsValue(cs, st + il + 1, fl)
        mag == Rat(ip * Pow10(fl) + fp, Pow10(fl))
    IN  [ok |-> il > 0,
         val |-> IF neg THEN Rat(-mag.n, mag.d) ELSE mag,
         end |-> st + il + (IF dot THEN 1 + fl ELSE 0)]

\* parseFloat(v): the longest numeric prefix of String(v), NaN when there is none
parseFloat(v) ==
    CASE v.k = "number" -> v
      [] v.k = "NaN" -> NaN
      [] v.k = "undefined" -> NaN
      [] v.k = "string" -> LET p == DecimalPrefix(v.s) IN IF p.ok THEN p.val ELSE NaN
      [] OTHER -> NaN

\* Number(v) / ToNumber: the whole string must be a numeric literal; "" is 0
ToNumber(v) ==
    CASE v.k = "number" -> v
      [] v.k = "NaN" -> NaN
      [] v.k = "undefined" -> NaN
      [] v.k = "string" ->
            IF Len(v.s) = 0 THEN Num(0)
            ELSE LET p == DecimalPrefix(v.s)
                 IN  IF p.ok /\ p.end = Len(v.s) + 1 THEN p.val ELSE NaN
      [] OTHER -> NaN

\* a + b, a * b, a - b on numbers (NaN is absorbing)
Add(a, b) == IF IsNum(a) /\ IsNum(b) THEN Rat(a.n * b.d + b.n * a.d, a.d * b.d) ELSE NaN
Mul(a, b) == IF IsNum(a) /\ IsNum(b) THEN Rat(a.n * b.n, a.d * b.d) ELSE NaN
Sub(a, b) == IF IsNum(a) /\ IsNum(b) THEN Rat(a.n * b.d - b.n * a.d, a.d * b.d) ELSE NaN
\* a / b for b # 0
Div(a, b) == IF IsNum(a) /\ IsNum(b) /\ b.n # 0 THEN Rat(a.n * b.d, a.d * b.n) ELSE NaN

\* a < b, a > b: false when an operand is NaN
Lt(a, b) == IsNum(a) /\ IsNum(b) /\ a.n * b.d < b.n * a.d
Gt(a, b) == Lt(b, a)
Le(a, b) == IsNum(a) /\ IsNum(b) /\ a.n * b.d <= b.n * a.d

\* Math.floor of a finite number
Floor(a) == a.n \div a.d


\* a + b of JavaScript: concatenation when an operand is a string, else numeric
JsPlus(a, b) ==
    IF a.k = "string" \/ b.k = "string"
    THEN Str(ToStringChars(a) \o ToStringChars(b))
    ELSE Add(ToNumber(a), ToNumber(b))

\* the pieces of cs between occurrences of sep (String.prototype.split)
RECURSIVE SplitFrom(_, _, _, _)
SplitFrom(cs, sep, i, cur) ==
    IF i > Len(cs) THEN <<cur>>
    ELSE IF cs[i] = sep THEN <<cur>> \o SplitFrom(cs, sep, i + 1, <<>>)
    ELSE SplitFrom(cs, sep, i + 1, Append(cur, cs[i]))

Split(cs, sep) == SplitFrom(cs, sep, 1, <<>>)

\* s.padStart(2, '0')
PadStart2(cs) == IF Len(cs) < 2 THEN <<"0">> \o cs ELSE cs

-----------------------------------------------------------------------------
(* Scalar helpers, lines 281-285                                           *)

\* Number.prototype.toFixed(d) of a finite number: the decimal with d fraction digits
\* nearest to x, the larger in magnitude of two equally near
toFixed(x, d) ==
    LET scaled == Abs(x.n) * Pow10(d)
        m == (2 * scaled + x.d) \div (2 * x.d)
        ip == NatChars(m \div Pow10(d))
        fdigits == [j \in 1..d |-> Digit((m \div Pow10(d - j)) % 10)]
        body == IF d = 0 THEN ip ELSE ip \o <<".">> \o fdigits
    IN  IF x.n < 0 /\ m # 0 THEN <<"-">> \o body ELSE body

\* line 281
truncateToDecimals(num, d) ==
    LET n == parseFloat(num)
    IN  IF IsNaNValue(n) THEN Num(0) ELSE parseFloat(Str(toFixed(n, d)))

\* arr.reduce((acc, val) => acc + val, 0)
RECURSIVE SumFrom(_, _, _)
SumFrom(arr, i, acc) ==
    IF i > Len(arr) THEN acc ELSE SumFrom(arr, i + 1, JsPlus(acc, arr[i]))

\* line 282
calculateAverage(arr) ==
    IF Len(arr) = 0 THEN Num(0)
    ELSE Div(ToNumber(SumFrom(arr, 1, Num(0))), Num(Len(arr)))

Chars_zeroDuration == <<"0", "0", ":", "0", "0", ":", "0", "0">>

\* line 283; for s >= 0, floor((s % 3600) / 60) = (floor(s) % 3600) div 60 and
\* floor(s % 60) = floor(s) % 60
formatSecondsToDuration(s) ==
    IF ~IsNum(s) \/ s.n < 0 THEN Str(Chars_zeroDuration)
    ELSE LET whole == Floor(s)
             h == whole \div 3600
             m == (whole % 3600) \div 60
             sec == whole % 60
         IN  Str(PadStart2(NatChars(h)) \o <<":">> \o PadStart2(NatChars(m))
                  \o <<":">> \o PadStart2(NatChars(sec)))

\* line 285
parseDurationToSeconds(dur) ==
    IF ~Truthy(dur) \/ dur.k # "string" THEN Num(0)
    ELSE LET parts == Split(dur.s, ":")
             p == [j \in 1..Len(parts) |-> ToNumber(Str(parts[j]))]
         IN  IF Len(p) # 3 THEN Num(0)
             ELSE Add(Add(Mul(p[1], Num(3600)), Mul(p[2], Num(60))), p[3])

TimeObject(h, m, sec) == [k |-> "object", hours |-> h, minutes |-> m, seconds |-> sec]

\* line 284
parseTimeObjectToSeconds(t) ==
    IF ~Truthy(t) THEN Num(0)
    ELSE IF t.k = "string" THEN parseDurationToSeconds(t)
    ELSE Add(Add(Mul(ToNumber(OrElse(t.hours, Num(0))), Num(3600)),
                 Mul(ToNumber(OrElse(t.minutes, Num(0))), Num(60))),
             ToNumber(OrElse(t.seconds, Num(0))))

-----------------------------------------------------------------------------
(* The grouping pass of getLearningSystemHierarchy, lines 288-314.         *)
(* A Map is the sequence of its values in insertion order, each carrying   *)
(* its key in the field key; keys are compared as Map compares them        *)
(* (SameValueZero: the number 1 and the string "1" are different keys).    *)

\* a row none of whose fields is present
EmptyRow ==
    [ChapterId |-> Undef, ChapterNo |-> Undef, ChapterName |-> Undef,
     UnitId |-> Undef, UnitNo |-> Undef, UnitName |-> Undef,
     ActivityTypeId |-> Undef, SequenceBuilderID |-> Undef, ActivityTypeName |-> Undef,
     ConceptId |-> Undef, ConceptName |-> Undef, ConceptCategory |-> Undef,
     ConceptParentId |-> Undef, ConceptParentName |-> Undef,
     UserId |-> Undef, UserFullName |-> Undef,
     UnitCompletionPercentage |-> Undef, UnitAccuracyPercentage |-> Undef,
     UnitTimeSpent |-> Undef,
     ActivityTypeAccuracyPercentage |-> Undef, ActivityTotalAttempts |-> Undef,
     ConceptAccuracyPercentage |-> Undef]

\* Map.prototype.has / the index of the entry of a key (0: none)
MapHas(m, key) == \E j \in 1..Len(m) : m[j].key = key
MapIndex(m, key) == IF MapHas(m, key) THEN CHOOSE j \in 1..Len(m) : m[j].key = key ELSE 0

\* line 291, the object literal
NewChapter(row) ==
    [key |-> row.ChapterId, chapterId |-> String(row.ChapterId),
     chapterNo |-> row.ChapterNo, chapterName |-> row.ChapterName, unitsMap |-> <<>>]

\* line 293, the object literal
NewUnit(row) ==
    [key |-> row.UnitId, unitId |-> String(row.UnitId), unitNo |-> row.UnitNo,
     unitName |-> row.UnitName, activitiesMap |-> <<>>, usersMap |-> <<>>]

\* line 296, the object literal; the id is the template `${UnitId}-${ActivityTypeId}-${SequenceBuilderID}`
NewActivity(row) ==
    [key |-> row.SequenceBuilderID,
     activityId |-> Str(ToStringChars(row.UnitId) \o <<"-">> \o ToStringChars(row.ActivityTypeId)
                        \o <<"-">> \o ToStringChars(row.SequenceBuilderID)),
     activityName |-> row.ActivityTypeName, concepts |-> <<>>]

\* line 298, the object literal
NewConcept(row) ==
    [conceptId |-> String(row.ConceptId), conceptName |-> row.ConceptName,
     conceptCategory |-> row.ConceptCategory]

\* line 300, the object literal
NewUser(row) ==
    [key |-> row.UserId, userId |-> String(row.UserId), userName |-> row.UserFullName,
     completion |-> OrElse(parseFloat(row.UnitCompletionPercentage), Num(0)),
     accuracy |-> OrElse(parseFloat(row.UnitAccuracyPercentage), Num(0)),
     totalTimeSpentSeconds |-> parseTimeObjectToSeconds(row.UnitTimeSpent),
     activityPerformanceMap |-> <<>>]

\* line 302, the object literal
NewActivityPerformance(activity, row) ==
    [key |-> activity.activityId, activityName |-> activity.activityName,
     accuracy |-> OrElse(truncateToDecimals(row.ActivityTypeAccuracyPercentage, 2), Num(0)),
     totalAttempts |-> row.ActivityTotalAttempts, performanceByCategory |-> <<>>]

\* line 311, the object literal
NewElement(row) ==
    [elementId |-> String(row.ConceptId), elementName |-> row.ConceptName,
     accuracy |-> OrElse(truncateToDecimals(row.ConceptAccuracyPercentage, 2), Num(0))]

\* Map.prototype.set of a key the Map may hold already, as the builder uses it:
\* if (!m.has(key)) m.set(key, value)
MapSetIfAbsent(m, key, value) == IF MapHas(m, key) THEN m ELSE Append(m, value)

\* line 311: the element is pushed when no element of the component has its id
ElementsWith(els, row) ==
    IF \E j \in 1..Len(els) : els[j].elementId = String(row.ConceptId)
    THEN els
    ELSE Append(els, NewElement(row))

\* line 310: currentComponent, the first component with the row's parent id
CurrentComponent(comps, row) ==
    CHOOSE j \in 1..Len(comps) :
        /\ comps[j].componentId = String(row.ConceptParentId)
        /\ \A i \in 1..(j - 1) : comps[i].componentId # String(row.ConceptParentId)

\* lines 308-309: the component is pushed when find does not find it
ComponentsWith(comps, row) ==
    IF \E j \in 1..Len(comps) : comps[j].componentId = String(row.ConceptParentId)
    THEN comps
    ELSE Append(comps, [componentId |-> String(row.ConceptParentId),
                        componentName |-> row.ConceptParentName, elements |-> <<>>])

\* lines 310-311 on the components of the current category
ComponentsUpdated(comps, row) ==
    [comps EXCEPT ![CurrentComponent(comps, row)].elements = ElementsWith(@, row)]

\* line 307: currentCategory, the first category with the row's category name
CurrentCategory(cats, row) ==
    CHOOSE j \in 1..Len(cats) :
        /\ cats[j].category = row.ConceptCategory
        /\ \A i \in 1..(j - 1) : cats[i].category # row.ConceptCategory

\* lines 305-306: the category is pushed when find does not find it
CategoriesWith(cats, row) ==
    IF \E j \in 1..Len(cats) : cats[j].category = row.ConceptCategory
    THEN cats
    ELSE Append(cats, [category |-> row.ConceptCategory, components |-> <<>>])

\* lines 307-311 on performanceByCategory
CategoriesUpdated(cats, row) ==
    [cats EXCEPT ![CurrentCategory(cats, row)].components =
                     ComponentsUpdated(ComponentsWith(@, row), row)]

\* lines 305-311: category by name, component by String(ConceptParentId), element by
\* String(ConceptId)
AddConceptPerformance(cats, row) == CategoriesUpdated(CategoriesWith(cats, row), row)

\* lines 303-312 on the user's _activityPerformanceMap, for the row's activity
ConceptRecorded(pm, row, activity) ==
    IF Truthy(row.ConceptId)
    THEN [pm EXCEPT ![MapIndex(pm, activity.activityId)].performanceByCategory =
                        AddConceptPerformance(@, row)]
    ELSE pm

\* lines 302-312 on the user's _activityPerformanceMap; ai is the index of the row's
\* activity in activities, 0 when the row has none
PerformanceUpdated(pm, row, activities, ai) ==
    IF ai = 0 THEN pm
    ELSE ConceptRecorded(
             MapSetIfAbsent(pm, activities[ai].activityId,
                            NewActivityPerformance(activities[ai], row)),
             row, activities[ai])

\* lines 301-312 on _usersMap, which holds the row's user
UserUpdated(usersMap, row, activities, ai) ==
    [usersMap EXCEPT ![MapIndex(usersMap, row.UserId)].activityPerformanceMap =
                         PerformanceUpdated(@, row, activities, ai)]

\* a variant of line 300 that overwrites the scalar fields of a user the Map holds
\* already (unit._usersMap.set without the has-test)
UsersWith_upsert(usersMap, row) ==
    IF MapHas(usersMap, row.UserId)
    THEN [usersMap EXCEPT ![MapIndex(usersMap, row.UserId)] =
              [NewUser(row) EXCEPT !.activityPerformanceMap = @ \o
                                       usersMap[MapIndex(usersMap, row.UserId)]
                                           .activityPerformanceMap]]
    ELSE Append(usersMap, NewUser(row))

\* line 300
UsersWith(usersMap, row) == MapSetIfAbsent(usersMap, row.UserId, NewUser(row))

\* lines 299-313, the statement if (row.UserId)
ProcessUser(usersMap, row, activities, ai) ==
    IF Truthy(row.UserId)
    THEN UserUpdated(UsersWith(usersMap, row), row, activities, ai)
    ELSE usersMap

\* line 296
ActivitiesWith(am, row) ==
    IF Truthy(row.ActivityTypeId) /\ ~MapHas(am, row.SequenceBuilderID)
    THEN Append(am, NewActivity(row))
    ELSE am

\* lines 297-298; ai is the index of activity = get(row.SequenceBuilderID), 0 for none
ConceptsUpdated(am, row, ai) ==
    IF /\ ai # 0
       /\ Truthy(row.ConceptId)
       /\ ~\E j \in 1..Len(am[ai].concepts) :
              am[ai].concepts[j].conceptId = String(row.ConceptId)
    THEN [am EXCEPT ![ai].concepts = Append(@, NewConcept(row))]
    ELSE am

\* lines 297-313 for a unit whose _activitiesMap is am after line 296
UnitUpdated(unit, row, am) ==
    [unit EXCEPT
        !.activitiesMap = ConceptsUpdated(am, row, MapIndex(am, row.SequenceBuilderID)),
        !.usersMap = ProcessUser(@, row,
                                 ConceptsUpdated(am, row, MapIndex(am, row.SequenceBuilderID)),
                                 MapIndex(am, row.SequenceBuilderID))]

\* lines 296-313, what one row does to its unit
ProcessRowInUnit(unit, row) == UnitUpdated(unit, row, ActivitiesWith(unit.activitiesMap, row))

\* line 293
UnitsWith(um, row) ==
    IF Truthy(row.UnitId) /\ ~MapHas(um, row.UnitId) THEN Append(um, NewUnit(row)) ELSE um

\* lines 294-313 on the chapter's _unitsMap after line 293; if (!unit) continue
UnitsUpdated(um, row) ==
    IF MapIndex(um, row.UnitId) = 0 THEN um
    ELSE [um EXCEPT ![MapIndex(um, row.UnitId)] = ProcessRowInUnit(@, row)]

\* lines 292-313 on chaptersMap, which holds the row's chapter
ChapterUpdated(cm, row) ==
    [cm EXCEPT ![MapIndex(cm, row.ChapterId)].unitsMap = UnitsUpdated(UnitsWith(@, row), row)]

\* line 291
ChaptersWith(cm, row) == MapSetIfAbsent(cm, row.ChapterId, NewChapter(row))

\* lines 291-313, the body of the for-loop: what one row does to chaptersMap
ProcessRow(cm, row) == ChapterUpdated(ChaptersWith(cm, row), row)

-----------------------------------------------------------------------------
(* The rollup pass of getLearningSystemHierarchy, lines 315-349            *)

\* arr.flat() of a sequence of sequences
RECURSIVE Flatten(_)
Flatten(ss) == IF Len(ss) = 0 THEN <<>> ELSE Head(ss) \o Flatten(Tail(ss))

Positive(a) == Gt(a, Num(0))

\* the orders of 1..n
Orders(n) == {p \in [1..n -> 1..n] : \A i, j \in 1..n : i # j => p[i] # p[j]}

\* a variant of the sorts that leaves the insertion order of the Map
SortOutcomes_insertionOrder(nos) == {[j \in 1..Len(nos) |-> j]}

\* Array.prototype.sort((a, b) => a.No - b.No) on elements whose No fields are nos:
\* the orders the sort may leave. When every No converts to a number the comparator
\* is consistent and the sort, being stable, has one outcome; otherwise a - b is NaN
\* for some pair and ECMAScript leaves the order to the implementation.
SortOutcomes(nos) ==
    LET n == Len(nos)
        key == [j \in 1..n |-> ToNumber(nos[j])]
    IN  IF \A j \in 1..n : IsNum(key[j])
        THEN {p \in Orders(n) :
                \A i, j \in 1..n :
                    i < j => \/ Lt(key[p[i]], key[p[j]])
                             \/ key[p[i]] = key[p[j]] /\ p[i] < p[j]}
        ELSE Orders(n)

\* a variant of line 315 that counts only the rows of a unit
courseAverageTimePerUnit_unitRows(data) ==
    LET Recorded(r) == Truthy(r.UserId) /\ Truthy(r.UnitTimeSpent) /\ Truthy(r.UnitId)
        rows == SelectSeq(data, Recorded)
    IN  calculateAverage([j \in 1..Len(rows) |-> parseTimeObjectToSeconds(rows[j].UnitTimeSpent)])

\* line 315
courseAverageTimePerUnit(data) ==
    LET Recorded(r) == Truthy(r.UserId) /\ Truthy(r.UnitTimeSpent)
        rows == SelectSeq(data, Recorded)
    IN  calculateAverage([j \in 1..Len(rows) |-> parseTimeObjectToSeconds(rows[j].UnitTimeSpent)])

\* a variant of line 319 that does not divide the sum by the number of users
avgUnitTimePerUser_total(unit) ==
    SumFrom([j \in 1..Len(unit.usersMap) |-> unit.usersMap[j].totalTimeSpentSeconds],
            1, Num(0))

\* line 319
avgUnitTimePerUser(unit) ==
    LET um == unit.usersMap
    IN  IF Len(um) > 0
        THEN Div(SumFrom([j \in 1..Len(um) |-> um[j].totalTimeSpentSeconds], 1, Num(0)),
                 Num(Len(um)))
        ELSE Num(0)

\* line 325: Array.from(user._activityPerformanceMap.values())
ActivitiesOf(user) ==
    [j \in 1..Len(user.activityPerformanceMap) |->
        LET a == user.activityPerformanceMap[j]
        IN  [activityName |-> a.activityName, accuracy |-> a.accuracy,
             totalAttempts |-> a.totalAttempts,
             performanceByCategory |-> a.performanceByCategory]]

\* a variant of line 326: time >= the unit's mean
isStruggling_ge(user, unitAvgTime) ==
    Lt(user.accuracy, Num(50)) /\ Le(unitAvgTime, user.totalTimeSpentSeconds)

\* line 326
isStruggling(user, unitAvgTime) ==
    Lt(user.accuracy, Num(50)) /\ Gt(user.totalTimeSpentSeconds, unitAvgTime)

\* lines 323-328
UserNode(user, unitAvgTime) ==
    [userId |-> user.userId, userName |-> user.userName, accuracy |-> user.accuracy,
     completion |-> user.completion, activities |-> ActivitiesOf(user),
     isStruggling |-> isStruggling(user, unitAvgTime),
     totalTimeSpent |-> formatSecondsToDuration(user.totalTimeSpentSeconds)]

\* line 330
avgUnitAccuracy(users) ==
    calculateAverage(SelectSeq([j \in 1..Len(users) |-> users[j].accuracy], Positive))

\* line 335
isProblematic(unitAvgAccuracy, unitAvgTime, courseAvgTime) ==
    Lt(unitAvgAccuracy, Num(60)) /\ Gt(unitAvgTime, courseAvgTime)

\* lines 331-337, the object literal
UnitRecord(unit, users, unitAvgAccuracy, unitAvgTime, courseAvgTime) ==
    [unitId |-> unit.unitId, unitNo |-> unit.unitNo, unitName |-> unit.unitName,
     noOfLearners |-> Len(users), avgAccuracy |-> truncateToDecimals(unitAvgAccuracy, 2),
     avgTimeSpent |-> formatSecondsToDuration(unitAvgTime),
     isProblematic |-> isProblematic(unitAvgAccuracy, unitAvgTime, courseAvgTime),
     users |-> users]

\* lines 330-337 for the users of lines 320-329
UnitOfUsers(unit, users, unitAvgTime, courseAvgTime) ==
    UnitRecord(unit, users, avgUnitAccuracy(users), unitAvgTime, courseAvgTime)

\* lines 320-337 for the avgUnitTimePerUser of line 319
UnitWithTime(unit, unitAvgTime, courseAvgTime) ==
    UnitOfUsers(unit,
                [j \in 1..Len(unit.usersMap) |-> UserNode(unit.usersMap[j], unitAvgTime)],
                unitAvgTime, courseAvgTime)

\* lines 319-337, the callback of units.map
UnitNode(unit, courseAvgTime) == UnitWithTime(unit, avgUnitTimePerUser(unit), courseAvgTime)

\* lines 339-342, the object literal; users are the users of the units, in the order
\* lines 321-322 push their accuracy and completion
ChapterRecord(chapter, units, users) ==
    [chapterId |-> chapter.chapterId, chapterNo |-> chapter.chapterNo,
     chapterName |-> chapter.chapterName, units |-> units,
     avgAccuracy |-> calculateAverage([j \in 1..Len(users) |-> users[j].accuracy]),
     completion |-> calculateAverage([j \in 1..Len(users) |-> users[j].completion])]

ChapterOfUnits(chapter, units) ==
    ChapterRecord(chapter, units, Flatten([j \in 1..Len(units) |-> units[j].users]))

\* lines 317-342; uo is the order the sort of line 318 leaves the chapter's units in
ChapterNode(chapter, uo, courseAvgTime) ==
    ChapterOfUnits(chapter,
                   [j \in 1..Len(chapter.unitsMap) |->
                       UnitNode(chapter.unitsMap[uo[j]], courseAvgTime)])

\* line 344-345
noOfLearners(data) ==
    Cardinality({data[j].UserId : j \in {i \in 1..Len(data) : Truthy(data[i].UserId)}})

\* lines 344-349 for the units and users of root.chapters
RootRecord(chapters, data, units, users) ==
    [chapters |-> chapters,
     noOfLearners |-> noOfLearners(data),
     avgAccuracy |->
         truncateToDecimals(
             calculateAverage(SelectSeq([j \in 1..Len(units) |-> units[j].avgAccuracy],
                                        Positive)), 2),
     completion |->
         truncateToDecimals(
             calculateAverage([j \in 1..Len(users) |-> users[j].completion]), 2),
     totalTimeSpent |->
         formatSecondsToDuration(
             SumFrom([j \in 1..Len(users) |->
                         parseDurationToSeconds(users[j].totalTimeSpent)], 1, Num(0)))]

RootOfUnits(chapters, data, units) ==
    RootRecord(chapters, data, units, Flatten([j \in 1..Len(units) |-> units[j].users]))

RootOfChapters(chapters, data) ==
    RootOfUnits(chapters, data, Flatten([j \in 1..Len(chapters) |-> chapters[j].units]))

\* lines 315-349; co is the order the sort of line 316 leaves the chapters in and
\* uo[c] the order that of line 318 leaves the units of the c-th chapter of the Map in
HierarchyWith(cm, data, co, uo, courseAvgTime) ==
    RootOfChapters([j \in 1..Len(cm) |-> ChapterNode(cm[co[j]], uo[co[j]], courseAvgTime)],
                   data)

Hierarchy(cm, data, co, uo) ==
    HierarchyWith(cm, data, co, uo, courseAverageTimePerUnit(data))

\* the sequences that take their j-th element from sets[j]
RECURSIVE Product(_)
Product(sets) ==
    IF Len(sets) = 0 THEN {<<>>}
    ELSE {<<h>> \o tl : h \in Head(sets), tl \in Product(Tail(sets))}

\* the orders the sorts of lines 316 and 318 may leave the chapters, and the units of
\* each chapter, in
ChapterOrders(cm) == SortOutcomes([j \in 1..Len(cm) |-> cm[j].chapterNo])
UnitOrders(cm) ==
    Product([c \in 1..Len(cm) |->
                SortOutcomes([j \in 1..Len(cm[c].unitsMap) |-> cm[c].unitsMap[j].unitNo])])

\* line 287, the object returned for no data
Chars_noData ==
    <<"N", "o", " ", "d", "a", "t", "a", " ", "f", "o", "u", "n", "d", " ", "f", "o", "r", " ", "t", "h", "e", " ", "s", "p", "e", "c", "i", "f", "i", "e", "d", " ", "c", "r", "i", "t", "e", "r", "i", "a", ".">>
NoDataResult == [message |-> Str(Chars_noData)]

\* line 287, the condition: !flatData || flatData.length === 0
NoData_absentOnly(fd) == ~fd.given
NoData(fd) == ~fd.given \/ Len(fd.rows) = 0

-----------------------------------------------------------------------------
(* The state machine: one call of getLearningSystemHierarchy(flatData),    *)
(* or one call of truncateToDecimals(tnum, tdig).                          *)
(* flatData is [given, rows]: given is FALSE for an absent argument        *)
(* (undefined / null), and rows is the array.                              *)

NoResult == [pending |-> TRUE]

\* lines 4 and 13: fullData is not assigned, the component shows the loading state
NoPanel == [rendered |-> FALSE]
InitPage ==
    /\ fullData = NoResult
    /\ view = "loading"
    /\ card = Undef
    /\ panel = NoPanel
    /\ concepts = <<>>
Absent == [given |-> FALSE, rows |-> <<>>]
Table(rows) == [given |-> TRUE, rows |-> rows]

\* line 287: the early return
ReturnNoData ==
    /\ pc = "start"
    /\ NoData(flatData)
    /\ root' = NoDataResult
    /\ pc' = "done"
    /\ UNCHANGED <<flatData, idx, chaptersMap, tnum, tdig, tres>>
    /\ UNCHANGED page

\* lines 288-289: root and chaptersMap are created
BeginBuild ==
    /\ pc = "start"
    /\ ~NoData(flatData)
    /\ chaptersMap' = <<>>
    /\ idx' = 0
    /\ pc' = "loop"
    /\ UNCHANGED <<flatData, root, tnum, tdig, tres>>
    /\ UNCHANGED page

\* lines 290-314: one iteration of for (const row of flatData)
LoopRow ==
    /\ pc = "loop"
    /\ idx < Len(flatData.rows)
    /\ chaptersMap' = ProcessRow(chaptersMap, flatData.rows[idx + 1])
    /\ idx' = idx + 1
    /\ UNCHANGED <<flatData, pc, root, tnum, tdig, tres>>
    /\ UNCHANGED page

\* lines 315-349: the rollup and the return
Rollup ==
    /\ pc = "loop"
    /\ idx = Len(flatData.rows)
    /\ \E co \in ChapterOrders(chaptersMap), uo \in UnitOrders(chaptersMap) :
           root' = Hierarchy(chaptersMap, flatData.rows, co, uo)
    /\ pc' = "done"
    /\ UNCHANGED <<flatData, idx, chaptersMap, tnum, tdig, tres>>
    /\ UNCHANGED page

\* line 281: a call truncateToDecimals(tnum, tdig)
CallTruncate ==
    /\ pc = "call"
    /\ tres' = truncateToDecimals(tnum, tdig)
    /\ pc' = "returned"
    /\ UNCHANGED <<flatData, idx, chaptersMap, root, tnum, tdig>>
    /\ UNCHANGED page

NextBuild == ReturnNoData \/ BeginBuild \/ LoopRow \/ Rollup
NextTruncate == CallTruncate

\* the tables of at most max rows drawn from rows, and the absent argument
Tables(rows, max) ==
    {Absent} \cup {Table(r) : r \in UNION {[1..n -> rows] : n \in 0..max}}

InitBuild(rows, max) ==
    /\ flatData \in Tables(rows, max)
    /\ pc = "start"
    /\ idx = 0
    /\ chaptersMap = <<>>
    /\ root = NoResult
    /\ tnum = Num(0)
    /\ tdig = 0
    /\ tres = Num(0)
    /\ InitPage

-----------------------------------------------------------------------------
(* Inputs.  A row is EmptyRow with some of its fields present.             *)

Text(c) == Str(<<c>>)

ChapterRow(id, no, name) ==
    [EmptyRow EXCEPT !.ChapterId = id, !.ChapterNo = no, !.ChapterName = name]

WithUnit(row, id, no, name) ==
    [row EXCEPT !.UnitId = id, !.UnitNo = no, !.UnitName = name]

WithUser(row, id, name, completion, accuracy, time) ==
    [row EXCEPT !.UserId = id, !.UserFullName = name,
                !.UnitCompletionPercentage = completion,
                !.UnitAccuracyPercentage = accuracy, !.UnitTimeSpent = time]

WithActivity(row, typeId, seqId, name, accuracy, attempts) ==
    [row EXCEPT !.ActivityTypeId = typeId, !.SequenceBuilderID = seqId,
                !.ActivityTypeName = name, !.ActivityTypeAccuracyPercentage = accuracy,
                !.ActivityTotalAttempts = attempts]

WithConcept(row, id, name, category, parentId, parentName, accuracy) ==
    [row EXCEPT !.ConceptId = id, !.ConceptName = name, !.ConceptCategory = category,
                !.ConceptParentId = parentId, !.ConceptParentName = parentName,
                !.ConceptAccuracyPercentage = accuracy]

\* "02:00:00", "00:10:00", "00:30:00"
Time_020000 == Str(<<"0", "2", ":", "0", "0", ":", "0", "0">>)
Time_001000 == Str(<<"0", "0", ":", "1", "0", ":", "0", "0">>)
Time_003000 == Str(<<"0", "0", ":", "3", "0", ":", "0", "0">>)
\* a duration with a non-numeric component, "1:xx:00", and one of two components, "10:00"
Time_malformed == Str(<<"1", ":", "x", "x", ":", "0", "0">>)
Time_twoParts == Str(<<"1", "0", ":", "0", "0">>)

(* The family of Spec: rows that repeat an id with other scalar fields, and *)
(* rows that give the same id once as a number and once as a string.        *)
IdChapters ==
    {ChapterRow(Num(1), Num(2), Text("A")),
     ChapterRow(Num(1), Num(1), Text("B")),
     ChapterRow(Str(<<"1">>), Num(1), Text("B"))}

IdUnitRows ==
    LET c == ChapterRow(Num(1), Num(2), Text("A"))
    IN  {WithUnit(c, Num(1), Num(1), Text("U")),
         WithUnit(c, Num(1), Num(2), Text("V")),
         WithUnit(c, Str(<<"1">>), Num(2), Text("V"))}

IdUserRows ==
    {WithUser(r, Num(7), Text("P"), Num(100), Num(80), Time_001000) : r \in IdUnitRows}
    \cup {WithUser(r, Num(7), Text("Q"), Num(50), Num(30), Time_020000) : r \in IdUnitRows}
    \cup {WithUser(r, Str(<<"7">>), Text("Q"), Num(50), Num(30), Time_020000) : r \in IdUnitRows}

IdActivityRows ==
    LET u == WithUnit(ChapterRow(Num(1), Num(2), Text("A")), Num(1), Num(1), Text("U"))
        p == WithUser(u, Num(7), Text("P"), Num(100), Num(80), Time_001000)
        q == WithUser(u, Num(8), Text("Q"), Num(50), Num(30), Time_020000)
        x == WithActivity(p, Num(1), Num(1), Text("X"), Num(70), Num(5))
        y == WithActivity(p, Num(2), Num(1), Text("Y"), Num(10), Num(9))
        z == WithActivity(q, Num(1), Num(1), Text("X"), Num(20), Num(4))
    IN  {x, y, z}
        \cup {WithConcept(a, Num(5), Text("c"), Text("G"), Num(9), Text("p"), Num(40)) :
                a \in {x, y, z}}
        \cup {WithConcept(a, Num(5), Text("d"), Text("G"), Num(9), Text("q"), Num(90)) :
                a \in {x, y}}
        \cup {WithConcept(x, Str(<<"5">>), Text("d"), Text("H"), Str(<<"9">>), Text("q"), Num(90)),
              WithConcept(x, Num(6), Text("e"), Text("G"), Num(9), Text("q"), Num(55))}

IdRows == IdChapters \cup IdUnitRows \cup IdUserRows \cup IdActivityRows

(* The family of SpecSort: chapters and units introduced in any order of    *)
(* their numbers, with equal numbers and with a number missing.             *)
SortChapters ==
    {ChapterRow(Num(1), Num(2), Text("A")), ChapterRow(Num(2), Num(1), Text("B")),
     ChapterRow(Num(3), Num(1), Text("C")), ChapterRow(Num(4), Undef, Text("D"))}

SortRows ==
    SortChapters
    \cup {WithUnit(c, Num(1), Num(2), Text("U")) : c \in SortChapters}
    \cup {WithUnit(c, Num(2), Num(1), Text("V")) : c \in SortChapters}
    \cup {WithUnit(c, Num(4), Num(1), Text("X")) : c \in {ChapterRow(Num(1), Num(2), Text("A"))}}
    \cup {WithUnit(c, Num(3), Undef, Text("W")) : c \in {ChapterRow(Num(1), Num(2), Text("A"))}}

(* The family of SpecNums: users of one chapter with their accuracy and     *)
(* time, in a unit or in none, and rows whose numeric fields are absent or  *)
(* malformed.                                                               *)
NumChapter == ChapterRow(Num(1), Num(1), Text("A"))

NumUnitRows ==
    {NumChapter, WithUnit(NumChapter, Num(1), Num(1), Text("U")),
     WithUnit(NumChapter, Num(2), Num(2), Text("V"))}

NumUserRows ==
    {WithUser(r, Text(w), Text(w), Num(100), m[1], m[2]) :
        r \in NumUnitRows, w \in {"a", "b"},
        m \in {<<Num(30), Time_020000>>, <<Num(30), Time_001000>>,
               <<Num(80), Time_001000>>, <<Num(80), Time_003000>>}}

NumOddRows ==
    LET u == WithUnit(NumChapter, Num(1), Num(1), Text("U"))
        full == WithUser(u, Text("a"), Text("a"), Num(100), Num(30), Time_020000)
    IN  {WithUser(u, Text("a"), Text("a"), Undef, Str(<<"x">>), Time_malformed),
         WithUser(u, Text("b"), Text("b"), Str(<<"9", "0", "%">>), Undef, Time_twoParts),
         WithUser(u, Text("b"), Text("b"), Num(100), Num(30), Undef),
         WithUser(u, Text("a"), Text("a"), Num(100), Num(30),
                  TimeObject(Num(1), Undef, Num(30))),
         WithActivity(full, Num(1), Num(1), Text("X"), Undef, Undef),
         WithActivity(full, Num(1), Num(2), Text("X"), Str(<<"5", "9", ".", "9", "9", "6">>),
                      Num(5)),
         WithConcept(WithActivity(full, Num(1), Num(1), Text("X"), Num(70), Num(5)),
                     Num(5), Text("c"), Text("G"), Num(9), Text("p"), Undef)}

NumRows == NumUnitRows \cup NumUserRows \cup NumOddRows

(* The inputs of SpecTruncate: thousandths, none of them halfway between    *)
(* two decimals of 1 or 2 digits (such a decimal number is no double, and   *)
(* the side toFixed takes is that of the double nearest to it), with 0, 1   *)
(* and 2 digits.                                                            *)
TruncateThousandths ==
    {-2567, -1000, -999, -1, 0, 1, 499, 500, 999, 1000, 1234, 12344, 36666, 36667,
     59000, 59900, 59940, 59949, 59989, 59990, 59994, 59996, 59999, 60000, 79999,
     80000, 99999, 100000}

TruncateInputs ==
    {Rat(k, 1000) : k \in TruncateThousandths}
    \cup {Undef, Str(<<"x">>), Str(<<"5", "9", ".", "9", "9", "6">>),
          Str(<<"5", "9", ".", "9", "9", "9">>), Str(<<"-", "1">>)}

InitTruncate ==
    /\ tnum \in TruncateInputs
    /\ tdig \in 0..2
    /\ tres = Num(0)
    /\ pc = "call"
    /\ flatData = Absent
    /\ idx = 0
    /\ chaptersMap = <<>>
    /\ root = NoResult
    /\ InitPage

Init == InitBuild(IdRows, MaxRows)
InitSort == InitBuild(SortRows, MaxRowsSort)
InitNums == InitBuild(NumRows, MaxRowsNums)

Next == NextBuild

Spec == Init /\ [][Next]_vars
SpecSort == InitSort /\ [][Next]_vars
SpecNums == InitNums /\ [][Next]_vars
SpecTruncate == InitTruncate /\ [][NextTruncate]_vars

\* lines 290-314, the whole for-loop: chaptersMap after the rows, from cm
RECURSIVE GroupRows(_, _)
GroupRows(cm, rows) ==
    IF Len(rows) = 0 THEN cm ELSE GroupRows(ProcessRow(cm, Head(rows)), Tail(rows))

\* lines 288-349 for a non-empty table whose chapter and unit numbers are all numbers
\* (the two sorts then have one outcome)
BuildHierarchy(rows) ==
    LET cm == GroupRows(<<>>, rows)
    IN  Hierarchy(cm, rows, CHOOSE co \in ChapterOrders(cm) : TRUE,
                  CHOOSE uo \in UnitOrders(cm) : TRUE)

-----------------------------------------------------------------------------
(* The page: the load of lines 12-32, the click handler of lines 65-79 and *)
(* the student diagnostic panel of lines 171-220.                          *)

\* line 187: unit.users.find(u => u.userId === userId), as the activities found
\* (none when no user of the unit has the id)
RECURSIVE FindActivities(_, _, _)
FindActivities(users, userId, j) ==
    IF j > Len(users) THEN <<>>
    ELSE IF users[j].userId = userId THEN users[j].activities
    ELSE FindActivities(users, userId, j + 1)

\* lines 186-189: the activity records the two forEach and the find visit, in order
StudentActivities(data, userId) ==
    Flatten([c \in 1..Len(data.chapters) |->
        Flatten([u \in 1..Len(data.chapters[c].units) |->
            FindActivities(data.chapters[c].units[u].users, userId, 1)])])

\* line 190: totalAttempts += act.totalAttempts, from 0, over the records visited
totalAttempts(acts) ==
    SumFrom([j \in 1..Len(acts) |-> acts[j].totalAttempts], 1, Num(0))

\* line 191
activityCount(acts) == Len(acts)

\* line 192: the elements of an activity record, category after category
ElementsOf(act) ==
    Flatten([g \in 1..Len(act.performanceByCategory) |->
        Flatten([p \in 1..Len(act.performanceByCategory[g].components) |->
            act.performanceByCategory[g].components[p].elements])])

\* Map.prototype.set: the value of an existing key is replaced in place
MapSet(m, key, value) ==
    IF MapHas(m, key)
    THEN [m EXCEPT ![MapIndex(m, key)] = [key |-> key, value |-> value]]
    ELSE Append(m, [key |-> key, value |-> value])

\* line 193 over the elements els from the j-th on
RECURSIVE StrugglingFrom(_, _, _)
StrugglingFrom(els, j, m) ==
    IF j > Len(els) THEN m
    ELSE StrugglingFrom(els, j + 1,
             IF Lt(els[j].accuracy, Num(60))
             THEN MapSet(m, els[j].elementName, els[j].accuracy)
             ELSE m)

\* lines 184-197: the Map strugglingConcepts after the scan
strugglingConcepts(acts) ==
    StrugglingFrom(Flatten([j \in 1..Len(acts) |-> ElementsOf(acts[j])]), 1, <<>>)

\* line 199: the accuracies of the user nodes of the id, unit after unit
StudentAccuracies(data, userId) ==
    LET IsStudent(usr) == usr.userId = userId
        Picked(users) == SelectSeq(users, IsStudent)
        Accuracies(users) == [j \in 1..Len(users) |-> users[j].accuracy]
    IN  Flatten([c \in 1..Len(data.chapters) |->
            Flatten([u \in 1..Len(data.chapters[c].units) |->
                Accuracies(Picked(data.chapters[c].units[u].users))])])

\* line 200
avgAttemptsPerActivity(total, count) ==
    Div(ToNumber(total), OrElse(Num(count), Num(1)))

\* a variant of lines 201-203 that tests the accuracy below 60 first
learningPattern_gapFirst(attempts, avgAccuracy) ==
    IF Lt(avgAccuracy, Num(60)) THEN "Knowledge Gap"
    ELSE IF Gt(attempts, Num(15)) /\ Lt(avgAccuracy, Num(70))
    THEN "Persistence without Mastery"
    ELSE "Methodical"

\* lines 201-203: learningPattern.type
learningPattern(attempts, avgAccuracy) ==
    IF Gt(attempts, Num(15)) /\ Lt(avgAccuracy, Num(70)) THEN "Persistence without Mastery"
    ELSE IF Lt(avgAccuracy, Num(60)) THEN "Knowledge Gap"
    ELSE "Methodical"

\* lines 173-178: the panel when no student is selected
EmptyPanel == [rendered |-> TRUE, selected |-> FALSE]

\* lines 183-218 for the records acts of the student
PanelOf(data, userId, acts) ==
    [rendered |-> TRUE, selected |-> TRUE,
     learningPattern |->
         learningPattern(avgAttemptsPerActivity(totalAttempts(acts), activityCount(acts)),
                         calculateAverage(StudentAccuracies(data, userId))),
     strugglingConcepts |-> strugglingConcepts(acts)]

\* lines 171-220: what the call leaves in the container
renderStudentDiagnosticPanel(data, userId) ==
    IF ~Truthy(userId) THEN EmptyPanel
    ELSE PanelOf(data, userId, StudentActivities(data, userId))

\* the user nodes of the hierarchy, unit after unit
UsersOf(data) ==
    Flatten([c \in 1..Len(data.chapters) |->
        Flatten([u \in 1..Len(data.chapters[c].units) |-> data.chapters[c].units[u].users])])

\* lines 128-144: the data-userid of the student cards, one card for each user id
StudentCards(data) == {UsersOf(data)[j].userId : j \in 1..Len(UsersOf(data))}

\* line 229: user.activities.find(a => ... e.elementId === el.elementId), as the
\* totalAttempts of the activity found, from the j-th activity on
RECURSIVE userActivity(_, _, _)
userActivity(activities, elementId, j) ==
    IF \E e \in 1..Len(ElementsOf(activities[j])) :
           ElementsOf(activities[j])[e].elementId = elementId
    THEN activities[j].totalAttempts
    ELSE userActivity(activities, elementId, j + 1)

\* line 224: the elements the nested forEach visit, in order, each with the attempts
\* line 230 pushes for it
ConceptObservations(data) ==
    LET OfActivity(activities, a) ==
            [e \in 1..Len(ElementsOf(activities[a])) |->
                [el |-> ElementsOf(activities[a])[e],
                 attempts |-> userActivity(activities,
                                  ElementsOf(activities[a])[e].elementId, 1)]]
        OfUser(user) ==
            Flatten([a \in 1..Len(user.activities) |-> OfActivity(user.activities, a)])
    IN  Flatten([w \in 1..Len(UsersOf(data)) |-> OfUser(UsersOf(data)[w])])

\* lines 226-230: the entry of conceptMap after an observation of its concept
ConceptObserved(concept, ob) ==
    [concept EXCEPT
        !.accuracies = IF Gt(ob.el.accuracy, Num(0)) THEN Append(@, ob.el.accuracy) ELSE @,
        !.attempts = Append(@, ob.attempts)]

\* line 225
ConceptMapWith(m, ob) ==
    MapSetIfAbsent(m, ob.el.elementId,
        [key |-> ob.el.elementId, name |-> ob.el.elementName,
         accuracies |-> <<>>, attempts |-> <<>>])

\* lines 226-230
ConceptMapUpdated(m, ob) ==
    [m EXCEPT ![MapIndex(m, ob.el.elementId)] = ConceptObserved(@, ob)]

\* lines 225-230 for the observations from the j-th on: conceptMap, in insertion order
RECURSIVE ConceptMapFrom(_, _, _)
ConceptMapFrom(obs, j, m) ==
    IF j > Len(obs) THEN m
    ELSE ConceptMapFrom(obs, j + 1, ConceptMapUpdated(ConceptMapWith(m, obs[j]), obs[j]))

\* lines 223-231
conceptMap(data) == ConceptMapFrom(ConceptObservations(data), 1, <<>>)

\* line 236: 1.1 is the number 11/10
difficulty(avgAccuracy, avgAttempts) ==
    Mul(Sub(Num(100), avgAccuracy),
        IF Gt(avgAttempts, Num(1)) THEN avgAttempts ELSE Rat(11, 10))

\* lines 233-237: a concept with its averages and its difficulty
ConceptCard(c) ==
    [id |-> c.key, name |-> c.name,
     avgAccuracy |-> calculateAverage(c.accuracies),
     avgAttempts |-> calculateAverage(c.attempts),
     difficulty |-> difficulty(calculateAverage(c.accuracies), calculateAverage(c.attempts))]

\* line 238: the orders sort((a, b) => b.difficulty - a.difficulty) can leave, those of
\* an ascending sort by -difficulty
ConceptOrders(data) ==
    SortOutcomes([k \in 1..Len(conceptMap(data)) |->
        Sub(Num(0), ConceptCard(conceptMap(data)[k]).difficulty)])

\* lines 222-238: the concepts the view lists, in the order the sort leaves
renderConceptAnalysis(data, order) ==
    [k \in 1..Len(order) |-> ConceptCard(conceptMap(data)[order[k]])]

\* lines 42-45: the data-view attributes of the tabs
Views == {"overview", "students", "concepts", "activities"}

\* lines 19-23: the builder returned the message; the error state is shown and no
\* listener is attached
ShowError ==
    /\ pc = "done"
    /\ "message" \in DOMAIN root
    /\ fullData' = root
    /\ view' = "error"
    /\ pc' = "failed"
    /\ UNCHANGED <<flatData, idx, chaptersMap, root, tnum, tdig, tres, card, panel, concepts>>

\* lines 19-26: the hierarchy is stored, the views are rendered (the panel with no
\* student, line 167) and the click listener is attached
InitializeApp ==
    /\ pc = "done"
    /\ "message" \notin DOMAIN root
    /\ fullData' = root
    /\ view' = "overview"
    /\ panel' = renderStudentDiagnosticPanel(root, Undef)
    /\ \E order \in ConceptOrders(root) : concepts' = renderConceptAnalysis(root, order)
    /\ pc' = "ready"
    /\ UNCHANGED <<flatData, idx, chaptersMap, root, tnum, tdig, tres, card>>

\* lines 67-70 and 81-84: a click on a tab
SwitchTabs ==
    /\ pc = "ready"
    /\ \E viewName \in Views : view' = viewName
    /\ UNCHANGED <<flatData, pc, idx, chaptersMap, root, tnum, tdig, tres, fullData, card, panel,
                   concepts>>

\* a variant of the click on a card that writes into the stored hierarchy
SelectStudent_storing ==
    /\ pc = "ready"
    /\ \E userId \in StudentCards(fullData) :
          /\ card' = userId
          /\ panel' = renderStudentDiagnosticPanel(fullData, userId)
    /\ fullData' = [fullData EXCEPT !.noOfLearners = 0]
    /\ UNCHANGED <<flatData, pc, idx, chaptersMap, root, tnum, tdig, tres, view, concepts>>

\* lines 71-77: a click on a student card
SelectStudent ==
    /\ pc = "ready"
    /\ \E userId \in StudentCards(fullData) :
          /\ card' = userId
          /\ panel' = renderStudentDiagnosticPanel(fullData, userId)
    /\ UNCHANGED <<flatData, pc, idx, chaptersMap, root, tnum, tdig, tres, fullData, view,
                   concepts>>

NextApp == NextBuild \/ ShowError \/ InitializeApp \/ SwitchTabs \/ SelectStudent

(* The family of SpecApp: the users "a" and "b" of the units 1 and 2 of one  *)
(* chapter, with a unit accuracy on either side of 60 and of 70, activities  *)
(* with few and with many attempts or with none recorded, and concepts of   *)
(* one name; and the table of a student with 20 activities of 16 attempts   *)
(* and unit accuracy 65.                                                    *)
AppChapter == ChapterRow(Num(1), Num(1), Text("A"))
AppUnit1 == WithUnit(AppChapter, Num(1), Num(1), Text("U"))
AppUnit2 == WithUnit(AppChapter, Num(2), Num(2), Text("V"))

AppUser(unit, w, accuracy) == WithUser(unit, Text(w), Text(w), Num(100), Num(accuracy), Time_001000)

AppActivity(row, seqId, attempts) == WithActivity(row, Num(1), Num(seqId), Text("X"), Num(70), attempts)

AppUserRows ==
    {AppUser(AppUnit1, "a", accuracy) : accuracy \in {50, 65, 80}}
    \cup {AppUser(AppUnit2, "a", accuracy) : accuracy \in {50, 80}}
    \cup {AppUser(AppUnit1, "b", 50)}

AppActivityRows ==
    {AppActivity(AppUser(AppUnit1, "a", accuracy), m[1], Num(m[2])) :
        accuracy \in {50, 65, 80}, m \in {<<1, 10>>, <<1, 16>>, <<2, 10>>, <<2, 40>>}}
    \cup {AppActivity(AppUser(AppUnit2, "a", accuracy), 1, Num(16)) : accuracy \in {50, 80}}
    \cup {AppActivity(AppUser(AppUnit1, "b", 50), 1, Num(16)),
          AppActivity(AppUser(AppUnit1, "a", 50), 1, Num(15)),
          AppActivity(AppUser(AppUnit1, "a", 50), 2, Undef)}

AppConceptRows ==
    {WithConcept(AppActivity(AppUser(AppUnit1, "a", 50), 1, Num(16)),
                 Num(m[1]), Text("c"), Text("G"), Num(9), Text("p"), Num(m[2])) :
        m \in {<<5, 40>>, <<6, 30>>, <<6, 70>>}}

AppRows == AppUserRows \cup AppActivityRows \cup AppConceptRows

ScenarioCRows ==
    [j \in 1..20 |->
        WithActivity(WithUser(AppUnit1, Text("s"), Text("s"), Num(100), Num(65), Time_001000),
                     Num(1), Num(j), Text("X"), Num(70), Num(16))]

InitApp ==
    /\ flatData \in Tables(AppRows, MaxRowsApp) \cup {Table(ScenarioCRows)}
    /\ pc = "start"
    /\ idx = 0
    /\ chaptersMap = <<>>
    /\ root = NoResult
    /\ tnum = Num(0)
    /\ tdig = 0
    /\ tres = Num(0)
    /\ InitPage

SpecApp == InitApp /\ [][NextApp]_vars

(* The family of SpecConcepts: n learners of one unit, each with one         *)
(* activity on which concept 5 is recorded; the first of them may have      *)
(* needed more attempts than the others; the accuracy is recorded or absent; *)
(* and the first learner may have a second concept, 6, on the activity.     *)
LearnerRow(j, attempts, id, accuracy) ==
    WithConcept(
        AppActivity(WithUser(AppUnit1, Num(j), Text("n"), Num(100), Num(80), Time_001000),
                    1, attempts),
        Num(id), Text("c"), Text("G"), Num(9), Text("p"), accuracy)

ConceptTables ==
    {[j \in 1..n |-> LearnerRow(j, IF j <= m THEN Num(p[1]) ELSE Num(p[2]), 5, accuracy)]
        \o second :
        n \in 1..MaxLearners, m \in 0..1, p \in {<<2, 1>>, <<5, 5>>},
        accuracy \in {Num(40), Undef},
        second \in {<<>>, <<LearnerRow(1, Num(1), 6, Num(10))>>}}

InitConcepts ==
    /\ flatData \in {Absent, Table(<<>>)} \cup {Table(rows) : rows \in ConceptTables}
    /\ pc = "start"
    /\ idx = 0
    /\ chaptersMap = <<>>
    /\ root = NoResult
    /\ tnum = Num(0)
    /\ tdig = 0
    /\ tres = Num(0)
    /\ InitPage

SpecConcepts == InitConcepts /\ [][NextApp]_vars

-----------------------------------------------------------------------------
(* Claims                                                                  *)

Built == pc = "done" /\ "chapters" \in DOMAIN root

NoRepeat(seq) == \A i, j \in 1..Len(seq) : i # j => seq[i] # seq[j]

\* the ids of the nodes held in a sequence, in the form the output gives them
ChapterIds(chs) == [j \in 1..Len(chs) |-> chs[j].chapterId]
UnitIds(us) == [j \in 1..Len(us) |-> us[j].unitId]
UserIds(us) == [j \in 1..Len(us) |-> us[j].userId]
CategoryNames(cats) == [j \in 1..Len(cats) |-> cats[j].category]
ComponentIds(comps) == [j \in 1..Len(comps) |-> comps[j].componentId]
ElementIds(els) == [j \in 1..Len(els) |-> els[j].elementId]

NoRepeatInCategories(cats) ==
    /\ NoRepeat(CategoryNames(cats))
    /\ \A c \in 1..Len(cats) :
          /\ NoRepeat(ComponentIds(cats[c].components))
          /\ \A p \in 1..Len(cats[c].components) :
                NoRepeat(ElementIds(cats[c].components[p].elements))

\* C1: after every prefix of the rows has been processed, and in the hierarchy
\* returned, no two sibling nodes have the same id: chapters by chapterId, the units
\* of a chapter by unitId, the users of a unit by userId, the categories of an
\* activity-performance record by name, the components of a category by componentId
\* and the elements of a component by elementId, the ids taken as the output gives
\* them (String(id)).
C1_NoDuplicateSiblings ==
    /\ pc \in {"loop", "done"} =>
          /\ NoRepeat(ChapterIds(chaptersMap))
          /\ \A c \in 1..Len(chaptersMap) :
                /\ NoRepeat(UnitIds(chaptersMap[c].unitsMap))
                /\ \A u \in 1..Len(chaptersMap[c].unitsMap) :
                      LET users == chaptersMap[c].unitsMap[u].usersMap
                      IN  /\ NoRepeat(UserIds(users))
                          /\ \A w \in 1..Len(users) :
                                \A a \in 1..Len(users[w].activityPerformanceMap) :
                                    NoRepeatInCategories(
                                        users[w].activityPerformanceMap[a]
                                            .performanceByCategory)
    /\ Built =>
          /\ NoRepeat(ChapterIds(root.chapters))
          /\ \A c \in 1..Len(root.chapters) :
                /\ NoRepeat(UnitIds(root.chapters[c].units))
                /\ \A u \in 1..Len(root.chapters[c].units) :
                      NoRepeat(UserIds(root.chapters[c].units[u].users))

\* C2: the call returns the "no data" object (a message and no chapters) when the
\* argument is absent or an empty array, and a hierarchy (chapters and no message)
\* for every non-empty array.
C2_NoDataSentinel ==
    pc = "done" =>
        IF ~flatData.given \/ Len(flatData.rows) = 0
        THEN "message" \in DOMAIN root /\ "chapters" \notin DOMAIN root
        ELSE "chapters" \in DOMAIN root /\ "message" \notin DOMAIN root

\* an empty array was given and the "no data" object has been returned
C2_Witness ==
    /\ pc = "done"
    /\ flatData.given
    /\ Len(flatData.rows) = 0
    /\ root = NoDataResult

\* elements old are the first elements of new
IsPrefix(old, new) == Len(old) <= Len(new) /\ \A j \in 1..Len(old) : new[j] = old[j]

KeptCategories(old, new) ==
    /\ Len(old) <= Len(new)
    /\ \A c \in 1..Len(old) :
          /\ new[c].category = old[c].category
          /\ Len(old[c].components) <= Len(new[c].components)
          /\ \A p \in 1..Len(old[c].components) :
                /\ new[c].components[p].componentId = old[c].components[p].componentId
                /\ new[c].components[p].componentName = old[c].components[p].componentName
                /\ IsPrefix(old[c].components[p].elements, new[c].components[p].elements)

KeptUsers(old, new) ==
    /\ Len(old) <= Len(new)
    /\ \A w \in 1..Len(old) :
          /\ new[w].userId = old[w].userId
          /\ new[w].userName = old[w].userName
          /\ new[w].completion = old[w].completion
          /\ new[w].accuracy = old[w].accuracy
          /\ new[w].totalTimeSpentSeconds = old[w].totalTimeSpentSeconds
          /\ Len(old[w].activityPerformanceMap) <= Len(new[w].activityPerformanceMap)
          /\ \A a \in 1..Len(old[w].activityPerformanceMap) :
                LET o == old[w].activityPerformanceMap[a]
                    n == new[w].activityPerformanceMap[a]
                IN  /\ n.activityName = o.activityName
                    /\ n.accuracy = o.accuracy
                    /\ n.totalAttempts = o.totalAttempts
                    /\ KeptCategories(o.performanceByCategory, n.performanceByCategory)

KeptActivities(old, new) ==
    /\ Len(old) <= Len(new)
    /\ \A a \in 1..Len(old) :
          /\ new[a].activityId = old[a].activityId
          /\ new[a].activityName = old[a].activityName
          /\ IsPrefix(old[a].concepts, new[a].concepts)

KeptChapters(old, new) ==
    /\ Len(old) <= Len(new)
    /\ \A c \in 1..Len(old) :
          /\ new[c].chapterId = old[c].chapterId
          /\ new[c].chapterNo = old[c].chapterNo
          /\ new[c].chapterName = old[c].chapterName
          /\ Len(old[c].unitsMap) <= Len(new[c].unitsMap)
          /\ \A u \in 1..Len(old[c].unitsMap) :
                LET o == old[c].unitsMap[u]
                    n == new[c].unitsMap[u]
                IN  /\ n.unitId = o.unitId
                    /\ n.unitNo = o.unitNo
                    /\ n.unitName = o.unitName
                    /\ KeptActivities(o.activitiesMap, n.activitiesMap)
                    /\ KeptUsers(o.usersMap, n.usersMap)

\* C3: processing a row leaves every scalar field of every node that exists already
\* as the first row that introduced the node set it (chapter and unit number and name,
\* user name, completion, accuracy and time, activity name, accuracy and attempts,
\* element name and accuracy); the row only appends new nodes.
C3_FirstSeenWins == [][KeptChapters(chaptersMap, chaptersMap')]_vars

\* two rows with the same chapter, unit and user but another user name and accuracy
\* have been processed, and the user node has the name and accuracy of the first
C3_Witness ==
    /\ pc = "loop"
    /\ idx = 2
    /\ LET r1 == flatData.rows[1]
           r2 == flatData.rows[2]
       IN  /\ r1.ChapterId = r2.ChapterId
           /\ Truthy(r1.UnitId) /\ r1.UnitId = r2.UnitId
           /\ Truthy(r1.UserId) /\ r1.UserId = r2.UserId
           /\ r1.UserFullName # r2.UserFullName
           /\ r1.UnitAccuracyPercentage # r2.UnitAccuracyPercentage
           /\ Len(chaptersMap) = 1
           /\ Len(chaptersMap[1].unitsMap) = 1
           /\ Len(chaptersMap[1].unitsMap[1].usersMap) = 1
           /\ chaptersMap[1].unitsMap[1].usersMap[1].userName = r1.UserFullName
           /\ chaptersMap[1].unitsMap[1].usersMap[1].accuracy = r1.UnitAccuracyPercentage

\* the unit nodes of a hierarchy, each with its users, their activities and concepts
AllUnits(h) == Flatten([c \in 1..Len(h.chapters) |-> h.chapters[c].units])

\* rows without its i-th row
Without(rows, i) == [j \in 1..(Len(rows) - 1) |-> IF j < i THEN rows[j] ELSE rows[j + 1]]

\* C4: a row without a unit id contributes nothing at or below the unit level: the
\* hierarchy has the same units, with their learner count, averages, isProblematic
\* flag, users, activities and concepts, as the one built from the table without
\* that row (which has no unit at all when no row is left).
C4_RowWithoutUnitIsInert ==
    Built =>
        \A i \in 1..Len(flatData.rows) :
            ~Truthy(flatData.rows[i].UnitId) =>
                AllUnits(root) =
                    IF Len(flatData.rows) = 1 THEN <<>>
                    ELSE AllUnits(BuildHierarchy(Without(flatData.rows, i)))

\* C5: whatever fields of the rows are absent or malformed, every numeric value held
\* in the hierarchy is a defined number (never undefined, never NaN): user accuracy,
\* completion and time in seconds, activity accuracy and total attempts, element
\* accuracy, and the average time of each unit.
C5_AllNumbersDefined ==
    Built =>
        \A c \in 1..Len(chaptersMap) :
            \A u \in 1..Len(chaptersMap[c].unitsMap) :
                LET unit == chaptersMap[c].unitsMap[u]
                IN  /\ IsNum(avgUnitTimePerUser(unit))
                    /\ \A w \in 1..Len(unit.usersMap) :
                          LET user == unit.usersMap[w]
                          IN  /\ IsNum(user.accuracy)
                              /\ IsNum(user.completion)
                              /\ IsNum(user.totalTimeSpentSeconds)
                              /\ \A a \in 1..Len(user.activityPerformanceMap) :
                                    LET act == user.activityPerformanceMap[a]
                                    IN  /\ IsNum(act.accuracy)
                                        /\ IsNum(act.totalAttempts)
                                        /\ \A g \in 1..Len(act.performanceByCategory) :
                                              \A p \in 1..Len(act.performanceByCategory[g].components) :
                                                  \A e \in 1..Len(act.performanceByCategory[g].components[p].elements) :
                                                      IsNum(act.performanceByCategory[g].components[p].elements[e].accuracy)

\* the value of num with the digits beyond the d-th decimal dropped (0 for no number)
Truncated(num, d) ==
    LET n == parseFloat(num)
    IN  IF ~IsNum(n) THEN Num(0)
        ELSE Rat((IF n.n < 0 THEN -1 ELSE 1) * ((Abs(n.n) * Pow10(d)) \div n.d), Pow10(d))

\* C7: truncateToDecimals(num, d) is num with the digits beyond the d-th decimal
\* dropped, not rounded: 59.996 and 59.999 give 59.9 at one decimal, -1 gives -1.
C7_TruncatesNotRounds == pc = "returned" => tres = Truncated(tnum, tdig)

\* the numbers of the chapters / units of a sequence of nodes
ChapterNos(chs) == [j \in 1..Len(chs) |-> chs[j].chapterNo]
UnitNos(us) == [j \in 1..Len(us) |-> us[j].unitNo]

AllNumbers(nos) == \A j \in 1..Len(nos) : IsNum(nos[j])

\* no element is followed, anywhere later, by a smaller one
NoInversion(nos) == \A i, j \in 1..Len(nos) : i < j => ~Lt(nos[j], nos[i])

\* each element is <= every later one
NonDecreasing(nos) == \A i, j \in 1..Len(nos) : i < j => Le(nos[i], nos[j])

HasScenarioBValues(r) == r.UnitAccuracyPercentage = Num(30) /\ r.UnitTimeSpent = Time_020000

\* a table of two rows that name the same chapter, the same unit and the same user,
\* the user's unit accuracy recorded as 30 and unit time as "02:00:00"
ScenarioB ==
    /\ Len(flatData.rows) = 2
    /\ flatData.rows[1].ChapterId = flatData.rows[2].ChapterId
    /\ Truthy(flatData.rows[1].UnitId)
    /\ flatData.rows[1].UnitId = flatData.rows[2].UnitId
    /\ Truthy(flatData.rows[1].UserId)
    /\ flatData.rows[1].UserId = flatData.rows[2].UserId
    /\ \E i \in 1..2 : HasScenarioBValues(flatData.rows[i])

\* C8 as stated: for a table of scenario B the user-in-unit node has isStruggling true.
C8_ScenarioBStruggling ==
    Built /\ ScenarioB => root.chapters[1].units[1].users[1].isStruggling = TRUE

\* C8, amended: for a table of scenario B the user-in-unit node has isStruggling false
\* (the user is the only user of the unit, so the time spent equals the unit's mean
\* time per user and is not greater than it).
C8_ScenarioBNotStruggling ==
    Built /\ ScenarioB =>
        /\ Len(root.chapters) = 1
        /\ Len(root.chapters[1].units) = 1
        /\ Len(root.chapters[1].units[1].users) = 1
        /\ root.chapters[1].units[1].users[1].isStruggling = FALSE

\* a table of scenario B has been built, and its user node has accuracy 30 and time
\* "02:00:00"
C8_Witness ==
    /\ Built
    /\ ScenarioB
    /\ root.chapters[1].units[1].users[1].accuracy = Num(30)
    /\ root.chapters[1].units[1].users[1].totalTimeSpent = Time_020000

\* the sum of a sequence of whole numbers
RECURSIVE SumOfWhole(_)
SumOfWhole(xs) == IF Len(xs) = 0 THEN 0 ELSE Head(xs).n + SumOfWhole(Tail(xs))

AllWhole(xs) == \A j \in 1..Len(xs) : IsNum(xs[j]) /\ xs[j].d = 1

\* a common denominator of a sequence of fractions, and their sum in units of 1 / den
RECURSIVE CommonDenominator(_)
CommonDenominator(xs) == IF Len(xs) = 0 THEN 1 ELSE Head(xs).d * CommonDenominator(Tail(xs))

RECURSIVE SumOver(_, _)
SumOver(xs, den) ==
    IF Len(xs) = 0 THEN 0 ELSE Head(xs).n * (den \div Head(xs).d) + SumOver(Tail(xs), den)

\* the unit nodes of the hierarchy made from unit u of chapter c of the Map
UnitNodesOf(c, u) ==
    UNION {{root.chapters[i].units[j] :
                j \in {j \in 1..Len(root.chapters[i].units) :
                          root.chapters[i].units[j].unitId = chaptersMap[c].unitsMap[u].unitId}} :
            i \in {i \in 1..Len(root.chapters) :
                      root.chapters[i].chapterId = chaptersMap[c].chapterId}}

UserTimes(unit) == [j \in 1..Len(unit.usersMap) |-> unit.usersMap[j].totalTimeSpentSeconds]

\* C9: a user-in-unit node has isStruggling true exactly when the user's unit accuracy
\* is below 50 and the user's time in seconds is strictly greater than the mean time
\* per user of the unit, the sum of the times of the unit's users divided by their
\* number (time * number > sum; no time that is not a number is greater than anything).
C9_StrugglingIff ==
    Built =>
        \A c \in 1..Len(chaptersMap) :
            \A u \in 1..Len(chaptersMap[c].unitsMap) :
                LET unit == chaptersMap[c].unitsMap[u]
                    times == UserTimes(unit)
                IN  \A node \in UnitNodesOf(c, u) :
                        /\ Len(node.users) = Len(unit.usersMap)
                        /\ \A w \in 1..Len(node.users) :
                              node.users[w].isStruggling <=>
                                  /\ AllWhole(times)
                                  /\ node.users[w].accuracy.n < 50 * node.users[w].accuracy.d
                                  /\ times[w].n * Len(times) > SumOfWhole(times)

\* a unit of two users has been built, one of them struggling and one below 50 that is not
C9_Witness ==
    /\ Built
    /\ \E c \in 1..Len(root.chapters) :
          \E u \in 1..Len(root.chapters[c].units) :
              LET users == root.chapters[c].units[u].users
              IN  /\ Len(users) = 2
                  /\ \E w, v \in 1..2 :
                        /\ users[w].isStruggling
                        /\ ~users[v].isStruggling
                        /\ Lt(users[v].accuracy, Num(50))

\* the times of the rows that have a user id and a time-spent value
RecordedTimes(rows) ==
    LET Recorded(r) == Truthy(r.UserId) /\ Truthy(r.UnitTimeSpent)
        kept == SelectSeq(rows, Recorded)
    IN  [j \in 1..Len(kept) |-> parseTimeObjectToSeconds(kept[j].UnitTimeSpent)]

WholeAccuracies(unit) ==
    LET IsPositive(a) == a.n > 0
    IN  SelectSeq([j \in 1..Len(unit.usersMap) |-> unit.usersMap[j].accuracy], IsPositive)

Selected == pc = "ready" /\ Truthy(card)

\* the activity records of the selected student: in each unit, those of the first
\* user node with the id
SelectedActivities ==
    Flatten([c \in 1..Len(fullData.chapters) |->
        Flatten([u \in 1..Len(fullData.chapters[c].units) |->
            LET users == fullData.chapters[c].units[u].users
                found == {j \in 1..Len(users) : users[j].userId = card}
            IN  IF found = {} THEN <<>>
                ELSE users[CHOOSE j \in found : \A i \in found : j <= i].activities])])

SelectedAttempts == [j \in 1..Len(SelectedActivities) |-> SelectedActivities[j].totalAttempts]

\* the unit accuracies of the selected student, one for each user node with the id
SelectedAccuracies ==
    LET nodes == UsersOf(fullData)
        IsSelected(usr) == usr.userId = card
        picked == SelectSeq(nodes, IsSelected)
    IN  [j \in 1..Len(picked) |-> picked[j].accuracy]

\* the mean of the selected student's unit accuracies is below bound (the accuracies
\* are numbers, and the student of a card has one at least)
MeanAccuracyBelow(bound) ==
    LET den == CommonDenominator(SelectedAccuracies)
    IN  SumOver(SelectedAccuracies, den) < bound * Len(SelectedAccuracies) * den

\* totalAttempts / max(activityCount, 1) > 15 (no total that is not a number is
\* greater than anything)
ManyAttempts ==
    LET count == IF Len(SelectedAttempts) > 1 THEN Len(SelectedAttempts) ELSE 1
        den == CommonDenominator(SelectedAttempts)
    IN  /\ \A j \in 1..Len(SelectedAttempts) : IsNum(SelectedAttempts[j])
        /\ SumOver(SelectedAttempts, den) > 15 * count * den

\* C11: for the student of every card of every hierarchy built, the classifier gives
\* "Persistence without Mastery" when totalAttempts / max(activityCount, 1) > 15 and
\* the mean of the student's unit accuracies is below 70, otherwise "Knowledge Gap"
\* when that mean is below 60, otherwise "Methodical": the first rule that matches,
\* in this order, decides.
C11_LearningPattern ==
    Selected =>
        panel.learningPattern =
            IF ManyAttempts /\ MeanAccuracyBelow(70) THEN "Persistence without Mastery"
            ELSE IF MeanAccuracyBelow(60) THEN "Knowledge Gap"
            ELSE "Methodical"

\* the student with 20 activities, 320 attempts in all and unit accuracy 65 has been
\* selected and is classified "Persistence without Mastery"
C11_Witness ==
    /\ Selected
    /\ Len(SelectedAttempts) = 20
    /\ SumOver(SelectedAttempts, 1) = 320
    /\ SelectedAccuracies = <<Num(65)>>
    /\ panel.learningPattern = "Persistence without Mastery"

\* the concept view has been rendered
Listed == pc = "ready"

\* the mean of a sequence of numbers, 0 for the empty sequence
MeanOf(xs) ==
    IF Len(xs) = 0 THEN Num(0)
    ELSE Rat(SumOver(xs, CommonDenominator(xs)), Len(xs) * CommonDenominator(xs))

\* the recorded accuracies (those above 0) of the elements of concept id over all
\* learners, and the attempts associated with them
AccuraciesOfConcept(id) ==
    LET IsRecorded(ob) == ob.el.elementId = id /\ Gt(ob.el.accuracy, Num(0))
        recorded == SelectSeq(ConceptObservations(fullData), IsRecorded)
    IN  [j \in 1..Len(recorded) |-> recorded[j].el.accuracy]

AttemptsOfConcept(id) ==
    LET IsConcept(ob) == ob.el.elementId = id
        seen == SelectSeq(ConceptObservations(fullData), IsConcept)
    IN  [j \in 1..Len(seen) |-> seen[j].attempts]

\* max(x, 1.1)
AtLeastOneTenth(x) == IF Lt(x, Rat(11, 10)) THEN Rat(11, 10) ELSE x

\* the concept ids of the hierarchy
ConceptIdsOf(data) ==
    {ConceptObservations(data)[j].el.elementId : j \in 1..Len(ConceptObservations(data))}

\* C12: every concept id of the cohort is listed once, with the difficulty index
\* (100 - average accuracy of the concept) * max(average attempts associated with the
\* concept, 1.1), whatever the average attempts, and the list is in non-increasing
\* order of the index (so accuracy 40 with attempts 5 gives 300).
C12_DifficultyIndex ==
    Listed =>
        /\ {concepts[k].id : k \in 1..Len(concepts)} = ConceptIdsOf(fullData)
        /\ \A i, j \in 1..Len(concepts) :
              i < j => /\ concepts[i].id # concepts[j].id
                       /\ ~Lt(concepts[i].difficulty, concepts[j].difficulty)
        /\ \A k \in 1..Len(concepts) :
              concepts[k].difficulty =
                  Mul(Sub(Num(100), MeanOf(AccuraciesOfConcept(concepts[k].id))),
                      AtLeastOneTenth(MeanOf(AttemptsOfConcept(concepts[k].id))))

\* C13: once the hierarchy is built and stored after a successful load, no tab switch
\* and no selection of a student card changes it: in every step from then on the stored
\* hierarchy stays what the builder returned, and nothing is built again (the builder's
\* Map and result are left alone and the page stays ready).
C13_HierarchyUnchanged ==
    [][pc = "ready" =>
          /\ fullData = root
          /\ fullData' = fullData
          /\ root' = root
          /\ chaptersMap' = chaptersMap
          /\ pc' = "ready"]_vars

\* a tab has been switched to and a student selected and classified, on a hierarchy
\* with learners
C13_Witness ==
    /\ pc = "ready"
    /\ view = "students"
    /\ Truthy(card)
    /\ panel = renderStudentDiagnosticPanel(root, card)
    /\ panel.selected
    /\ fullData = root
    /\ fullData.noOfLearners > 0

=============================================================================
